---- MODULE Spec2Model ----
(***************************************************************************)
(* Model of the breast-cancer prediction service (flask_app.py) and of the *)
(* artifact its training script writes (train_model.py).                   *)
(*                                                                         *)
(* One process holds the module-level global model_artifacts.  It is       *)
(* either started as the main program (load_model, then app.run or         *)
(* exit(1)) or imported by a test harness / WSGI server, where load_model  *)
(* is called by the harness and may interleave with the request handlers.  *)
(* One request is followed through its handler; /predict is split at every *)
(* point where it reads the global or calls a collaborator.                *)
(***************************************************************************)
EXTENDS Integers, Sequences, FiniteSets, TLC

\* Largest len(metadata['feature_names']) of a bundle.
MaxFeatures == 2
\* Longest `features` list a request carries.
MaxLen == 2
\* Longest nested list used as an element of `features`.
MaxInner == 2

VARIABLES
    main_pc,          \* "start" | "serving" | "exited" | "imported"
    exit_status,      \* <<>> while running, <<1>> after exit(1)
    disk,             \* what lies at MODEL_PATH
    model_artifacts,  \* the module-level global
    load_result,      \* <<>> or <<r>>: what the last load_model call returned
    request,          \* the request being handled
    pc,               \* position of the handler
    data,             \* predict: result of request.get_json()
    features_array,   \* predict: array returned by validate_input
    votes,            \* predict: <<>> or <<bundle, b>>, the forest's vote
    prediction,       \* predict: <<>> or <<label>>
    probabilities,    \* predict: <<>> or <<p_malignant, p_benign>>
    calls,            \* collaborators called for this request, in order
    bundle_read,      \* <<>> or <<v>>: the global as the `is None` test, and
                      \* then validate_input, last read it
    response          \* the response sent for this request

vars == <<main_pc, exit_status, disk, model_artifacts, load_result, request,
          pc, data, features_array, votes, prediction, probabilities, calls,
          bundle_read, response>>

req_vars == <<request, pc, data, features_array, votes, prediction,
              probabilities, calls, bundle_read, response>>

proc_vars == <<main_pc, exit_status, disk, model_artifacts, load_result>>

----------------------------------------------------------------------------
(* The artifact file and the global.                                       *)

\* model_artifacts = None
None == [kind |-> "None", n |-> 0]

\* A bundle written by save_model: n = len(metadata['feature_names']), which
\* is also the number of columns the scaler and the classifier were fitted on.
Bundle(n) == [kind |-> "good", n |-> n]

\* A pickled dict with 'model' and 'scaler' but without
\* metadata['feature_names'].
BundleNoMeta(n) == [kind |-> "nometa", n |-> n]

Bundles == {Bundle(n) : n \in 1..MaxFeatures}
               \cup {BundleNoMeta(n) : n \in 1..MaxFeatures}

\* Contents of MODEL_PATH: no file, a file joblib cannot load, or a bundle.
DiskStates == {[kind |-> "missing", n |-> 0], [kind |-> "corrupt", n |-> 0]}
                  \cup Bundles

\* load_model(): the value of the global after the call and the value returned.
\* The global is assigned before the log line that reads feature_names.
load_model_result(d, old) ==
    CASE d.kind = "missing" -> [artifacts |-> old, result |-> FALSE]
      [] d.kind = "corrupt" -> [artifacts |-> old, result |-> FALSE]
      [] d.kind = "nometa"  -> [artifacts |-> d, result |-> FALSE]
      [] OTHER              -> [artifacts |-> d, result |-> TRUE]

----------------------------------------------------------------------------
(* Responses.                                                              *)

Msg(text) == [text |-> text, args |-> <<>>]

NoMsg == Msg("")

NoResponse ==
    [code |-> 0, keys |-> {}, status |-> "", message |-> NoMsg,
     detail |-> "", prediction |-> <<>>, model_info |-> <<>>]

\* jsonify({'status': 'error', 'message': m, 'timestamp': ...}), code
ErrorResponse(code, m) ==
    [code |-> code, keys |-> {"status", "message", "timestamp"},
     status |-> "error", message |-> m, detail |-> "",
     prediction |-> <<>>, model_info |-> <<>>]

\* jsonify({'status': 'error', 'message': m}), code
ErrorResponseNoTimestamp(code, m) ==
    [code |-> code, keys |-> {"status", "message"},
     status |-> "error", message |-> m, detail |-> "",
     prediction |-> <<>>, model_info |-> <<>>]

----------------------------------------------------------------------------
(* Request bodies as Python sees them after json parsing.                  *)

\* An element of a `features` list.  "number" is a finite int or float,
\* "nonfinite" the literals NaN / Infinity (json.loads accepts them),
\* "numstr" a string float() parses to a finite number, "string" any other
\* string, "huge" an int beyond the float range, "list" a non-empty nested
\* list of len finite numbers.
ScalarKinds ==
    {"number", "nonfinite", "numstr", "string", "boolean", "null", "object",
     "huge"}

Scalar(k) == [kind |-> k, len |-> 0]

NestedList(k) == [kind |-> "list", len |-> k]

Elements == {Scalar(k) : k \in ScalarKinds}
                \cup {NestedList(k) : k \in 1..MaxInner}

FeatureLists == UNION {[1..m -> Elements] : m \in 0..MaxLen}

\* A parsed JSON document: its type, its truth value (`not data`), whether
\* `'features' in data` is true, and for an object holding `features` the
\* type of that value and, for a list, its elements.
Json(type, truthy, has_features, ftype, items) ==
    [raw |-> "json", type |-> type, truthy |-> truthy,
     has_features |-> has_features, ftype |-> ftype, items |-> items]

\* No body / no JSON content type, and a body that is not valid JSON.
AbsentBody == [Json("", FALSE, FALSE, "none", <<>>) EXCEPT !.raw = "absent"]

InvalidBody == [Json("", FALSE, FALSE, "none", <<>>) EXCEPT !.raw = "invalid"]

NoBody == [Json("", FALSE, FALSE, "none", <<>>) EXCEPT !.raw = "none"]

FeaturesBody(items) == Json("object", TRUE, TRUE, "list", items)

JsonBodies ==
    {Json("null", FALSE, FALSE, "none", <<>>)}
        \cup {Json("number", t, FALSE, "none", <<>>) : t \in BOOLEAN}
        \cup {Json("boolean", t, FALSE, "none", <<>>) : t \in BOOLEAN}
        \cup {Json("string", FALSE, FALSE, "none", <<>>)}
        \cup {Json("string", TRUE, h, "none", <<>>) : h \in BOOLEAN}
        \cup {Json("array", FALSE, FALSE, "none", <<>>)}
        \cup {Json("array", TRUE, h, "none", <<>>) : h \in BOOLEAN}
        \cup {Json("object", FALSE, FALSE, "none", <<>>)}
        \cup {Json("object", TRUE, FALSE, "none", <<>>)}
        \cup {Json("object", TRUE, TRUE, "other", <<>>)}
        \cup {FeaturesBody(items) : items \in FeatureLists}

Bodies == {AbsentBody, InvalidBody} \cup JsonBodies

\* request.get_json(): the outcomes the framework can produce.  A missing
\* body or content type yields None in older releases and raises
\* UnsupportedMediaType in newer ones; a body that does not parse raises
\* BadRequest; the document `null` parses to None.
Returned(v) == [exc |-> "", value |-> v]

Raised(e) == [exc |-> e, value |-> <<>>]

get_json(body) ==
    CASE body.raw = "absent"  -> {Returned(<<>>), Raised("UnsupportedMediaType")}
      [] body.raw = "invalid" -> {Raised("BadRequest")}
      [] body.type = "null"   -> {Returned(<<>>)}
      [] OTHER                -> {Returned(<<body>>)}

----------------------------------------------------------------------------
(* validate_input.                                                         *)

\* np.array(features, dtype=float).reshape(1, -1): the exception raised, or
\* the number of columns of the row and whether every value is finite.
\* Shape discovery comes first (a mix of lists and scalars, or lists of
\* different lengths, is a ValueError); then the elements are converted in
\* order, None becoming nan.
ArrayOf(cols, finite) == [exc |-> "", cols |-> cols, finite |-> finite]

ArrayError(e) == [exc |-> e, cols |-> 0, finite |-> FALSE]

ConversionError(e) ==
    CASE e.kind = "string" -> "ValueError"
      [] e.kind = "object" -> "TypeError"
      [] e.kind = "huge"   -> "OverflowError"
      [] OTHER             -> ""

np_array(features) ==
    LET n == Len(features)
        lists == {i \in 1..n : features[i].kind = "list"}
        failing == {i \in 1..n : ConversionError(features[i]) # ""}
        first == CHOOSE i \in failing : \A j \in failing : i <= j
    IN  IF lists # {} /\ lists # 1..n
          THEN ArrayError("ValueError")
        ELSE IF lists # {}
          THEN IF \E i, j \in lists : features[i].len # features[j].len
                 THEN ArrayError("ValueError")
                 ELSE ArrayOf(n * features[1].len, TRUE)
        ELSE IF failing # {}
          THEN ArrayError(ConversionError(features[first]))
        ELSE ArrayOf(n, \A i \in 1..n :
                            features[i].kind \notin {"nonfinite", "null"})

WrongLengthMsg_without_received(expected, received) ==
    [text |-> "Se esperan {} características, se recibieron {}",
     args |-> <<expected>>]

WrongLengthMsg(expected, received) ==
    [text |-> "Se esperan {} características, se recibieron {}",
     args |-> <<expected, received>>]

Invalid(m) == [exc |-> "", valid |-> FALSE, msg |-> m, array |-> <<>>]

Valid(a) == [exc |-> "", valid |-> TRUE, msg |-> NoMsg, array |-> <<a>>]

Throws(e) == [exc |-> e, valid |-> FALSE, msg |-> NoMsg, array |-> <<>>]

\* validate_input(data), reading the global `artifacts`: the tuple it
\* returns, or the exception that escapes it.
validate_input(d, artifacts) ==
    LET arr == np_array(d.items) IN
    IF ~d.truthy
      THEN Invalid(Msg("No se proporcionaron datos"))
    ELSE IF d.type \in {"number", "boolean"}
      THEN Throws("TypeError")        \* 'features' not in data
    ELSE IF ~d.has_features
      THEN Invalid(Msg("Campo 'features' requerido"))
    ELSE IF d.type \in {"string", "array"}
      THEN Throws("TypeError")        \* data['features']
    ELSE IF d.ftype # "list"
      THEN Invalid(Msg("Las características deben ser una lista"))
    ELSE IF artifacts.kind = "None"
      THEN Throws("TypeError")        \* None['metadata']
    ELSE IF artifacts.kind = "nometa"
      THEN Throws("KeyError")
    ELSE IF Len(d.items) # artifacts.n
      THEN Invalid(WrongLengthMsg(artifacts.n, Len(d.items)))
    ELSE IF arr.exc \in {"ValueError", "TypeError"}
      THEN Invalid(Msg("Todas las características deben ser valores numéricos"))
    ELSE IF arr.exc # ""
      THEN Throws(arr.exc)
    ELSE IF ~arr.finite
      THEN Invalid(Msg("Las características contienen valores inválidos (NaN o infinito)"))
    ELSE Valid(arr)

\* The reason strings validate_input can return.
ValidatorMessages ==
    {"No se proporcionaron datos",
     "Campo 'features' requerido",
     "Las características deben ser una lista",
     "Se esperan {} características, se recibieron {}",
     "Todas las características deben ser valores numéricos",
     "Las características contienen valores inválidos (NaN o infinito)"}

----------------------------------------------------------------------------
(* Process start, training and loading.                                    *)

NoRequest == [endpoint |-> "", body |-> NoBody]

Init ==
    /\ main_pc \in {"start", "imported"}
    /\ exit_status = <<>>
    /\ disk \in DiskStates
    /\ model_artifacts = None
    /\ load_result = <<>>
    /\ request = NoRequest
    /\ pc = "idle"
    /\ data = <<>>
    /\ features_array = <<>>
    /\ votes = <<>>
    /\ prediction = <<>>
    /\ probabilities = <<>>
    /\ calls = <<>>
    /\ bundle_read = <<>>
    /\ response = NoResponse

\* train_model.py save_model: joblib.dump of model, scaler and metadata, with
\* metadata['feature_names'] set.
save_model ==
    /\ \E n \in 1..MaxFeatures : disk' = Bundle(n)
    /\ disk' # disk
    /\ UNCHANGED <<main_pc, exit_status, model_artifacts, load_result>>
    /\ UNCHANGED req_vars

\* if __name__ == '__main__': load_model(), then app.run(...) or exit(1).
main_runs_regardless ==
    /\ main_pc = "start"
    /\ LET r == load_model_result(disk, model_artifacts) IN
         /\ model_artifacts' = r.artifacts
         /\ load_result' = <<r.result>>
         /\ main_pc' = "serving"
         /\ exit_status' = exit_status
    /\ UNCHANGED disk
    /\ UNCHANGED req_vars

main ==
    /\ main_pc = "start"
    /\ LET r == load_model_result(disk, model_artifacts) IN
         /\ model_artifacts' = r.artifacts
         /\ load_result' = <<r.result>>
         /\ IF r.result
              THEN main_pc' = "serving" /\ exit_status' = exit_status
              ELSE main_pc' = "exited" /\ exit_status' = <<1>>
    /\ UNCHANGED disk
    /\ UNCHANGED req_vars

\* load_model() called by the importing harness (the test fixture), at any
\* moment, also while a request is being handled.
load_model ==
    /\ main_pc = "imported"
    /\ LET r == load_model_result(disk, model_artifacts) IN
         /\ model_artifacts' = r.artifacts
         /\ load_result' = <<r.result>>
    /\ UNCHANGED <<main_pc, exit_status, disk>>
    /\ UNCHANGED req_vars

----------------------------------------------------------------------------
(* The classifier and the shaping of the prediction.                       *)

\* predict_proba(x)[0][1], the benign share of the forest's vote, in units
\* of 10^-5; the malignant share is the rest.
ProbGrid == {0, 12345, 49995, 50000, 50001, 99995, 100000}

Proba(b) == <<100000 - b, b>>

\* RandomForestClassifier.predict: classes_.take(argmax(predict_proba)); the
\* classes are 0 (malignant) and 1 (benign) and a tie goes to the first.
forest_predict(p) == IF p[2] > p[1] THEN 1 ELSE 0

\* round(float(p) * 100, 2) for p in units of 10^-5: the percentage in
\* hundredths.  At a decimal halfway the binary float lies just below or
\* just above it (or on it, and goes to the even neighbour), so the result
\* is one neighbour or the other, fixed by the value: `up` tells which.
Round2(p, up) ==
    LET q == p \div 10
        r == p % 10
    IN  IF r < 5 THEN q
        ELSE IF r > 5 THEN q + 1
        ELSE IF up[p] THEN q + 1 ELSE q

\* The directions the halfway cases of the values of a pair can take.
TieDirections(p) == [{p[1], p[2]} -> BOOLEAN]

Max_takes_smaller(a, b) == IF a >= b THEN b ELSE a

Max(a, b) == IF a >= b THEN a ELSE b

diagnosis_swapped(label) == IF label = 1 THEN "Maligno" ELSE "Benigno"

diagnosis_of(label) == IF label = 1 THEN "Benigno" ELSE "Maligno"

PredictionResponse_benign_from_first(label, p, up) ==
    [code |-> 200, keys |-> {"status", "prediction", "timestamp"},
     status |-> "success", message |-> NoMsg, detail |-> "",
     prediction |-> <<[class |-> label,
                       diagnosis |-> diagnosis_of(label),
                       confidence |-> Round2(Max(p[1], p[2]), up),
                       probabilities |-> [malignant |-> Round2(p[1], up),
                                          benign |-> Round2(p[1], up)]]>>,
     model_info |-> <<>>]

\* The 200 response of /predict.
PredictionResponse(label, p, up) ==
    [code |-> 200, keys |-> {"status", "prediction", "timestamp"},
     status |-> "success", message |-> NoMsg, detail |-> "",
     prediction |-> <<[class |-> label,
                       diagnosis |-> diagnosis_of(label),
                       confidence |-> Round2(Max(p[1], p[2]), up),
                       probabilities |-> [malignant |-> Round2(p[1], up),
                                          benign |-> Round2(p[2], up)]]>>,
     model_info |-> <<>>]

\* The except branch of /predict: 500 with the `detail` field.
PredictFault(e) ==
    [code |-> 500, keys |-> {"status", "message", "detail", "timestamp"},
     status |-> "error", message |-> Msg("Error procesando la predicción"),
     detail |-> e, prediction |-> <<>>, model_info |-> <<>>]

----------------------------------------------------------------------------
(* Requests.                                                               *)

\* The three routes, a path no route matches, and "<fault>": a request whose
\* handling raises outside the views (every view catches Exception itself).
Endpoints == {"/", "/predict", "/model-info", "/nonexistent", "<fault>"}

Requests ==
    {[endpoint |-> e, body |-> NoBody] : e \in Endpoints \ {"/predict"}}
        \cup {[endpoint |-> "/predict", body |-> b] : b \in Bodies}

\* Requests reach the handlers once app.run is serving, or through the
\* importing harness.
Accepting == main_pc \in {"serving", "imported"}

\* A request arrives and is dispatched to its handler.
receive ==
    /\ Accepting
    /\ pc = "idle"
    /\ request' \in Requests
    /\ pc' = "handle"
    /\ UNCHANGED <<data, features_array, votes, prediction, probabilities,
                   calls, bundle_read, response>>
    /\ UNCHANGED proc_vars

\* The view has returned its response: the request and everything the
\* handler held locally are gone.
handler_returns ==
    /\ pc = "done"
    /\ pc' = "idle"
    /\ request' = NoRequest
    /\ data' = <<>>
    /\ features_array' = <<>>
    /\ votes' = <<>>
    /\ prediction' = <<>>
    /\ probabilities' = <<>>
    /\ calls' = <<>>
    /\ bundle_read' = <<>>
    /\ response' = NoResponse
    /\ UNCHANGED proc_vars

Respond(r) ==
    /\ response' = r
    /\ pc' = "done"

\* GET /
health_check ==
    /\ pc = "handle"
    /\ request.endpoint = "/"
    /\ bundle_read' = <<model_artifacts>>
    /\ IF model_artifacts = None
         THEN Respond(ErrorResponse(503, Msg("Modelo no cargado")))
       ELSE IF model_artifacts.kind = "nometa"
         THEN Respond(ErrorResponse(500, Msg("Error interno del servidor")))
       ELSE Respond(
              [code |-> 200,
               keys |-> {"status", "message", "model_info", "timestamp"},
               status |-> "healthy",
               message |-> Msg("Servicio de predicción de cáncer de mama operativo"),
               detail |-> "", prediction |-> <<>>,
               model_info |-> <<[features_count |-> model_artifacts.n]>>])
    /\ UNCHANGED <<request, data, features_array, votes, prediction,
                   probabilities, calls>>
    /\ UNCHANGED proc_vars

\* GET /model-info
model_info ==
    /\ pc = "handle"
    /\ request.endpoint = "/model-info"
    /\ bundle_read' = <<model_artifacts>>
    /\ IF model_artifacts = None
         THEN Respond(ErrorResponseNoTimestamp(503, Msg("Modelo no cargado")))
       ELSE IF model_artifacts.kind = "nometa"
         THEN Respond(ErrorResponseNoTimestamp(500,
                        Msg("Error obteniendo información del modelo")))
       ELSE Respond(
              [code |-> 200,
               keys |-> {"status", "model_metadata", "timestamp"},
               status |-> "success", message |-> NoMsg,
               detail |-> "", prediction |-> <<>>,
               model_info |-> <<[features_count |-> model_artifacts.n]>>])
    /\ UNCHANGED <<request, data, features_array, votes, prediction,
                   probabilities, calls>>
    /\ UNCHANGED proc_vars

\* errorhandler(404)
not_found ==
    /\ pc = "handle"
    /\ request.endpoint = "/nonexistent"
    /\ Respond(ErrorResponse(404, Msg("Endpoint no encontrado")))
    /\ UNCHANGED <<request, data, features_array, votes, prediction,
                   probabilities, calls, bundle_read>>
    /\ UNCHANGED proc_vars

\* errorhandler(500)
internal_error ==
    /\ pc = "handle"
    /\ request.endpoint = "<fault>"
    /\ Respond(ErrorResponse(500, Msg("Error interno del servidor")))
    /\ UNCHANGED <<request, data, features_array, votes, prediction,
                   probabilities, calls, bundle_read>>
    /\ UNCHANGED proc_vars

predict_check_unguarded ==
    /\ pc = "handle"
    /\ request.endpoint = "/predict"
    /\ bundle_read' = <<model_artifacts>>
    /\ pc' = "get_json"
    /\ response' = response
    /\ UNCHANGED <<request, data, features_array, votes, prediction,
                   probabilities, calls>>
    /\ UNCHANGED proc_vars

\* POST /predict, `if model_artifacts is None`
predict_check ==
    /\ pc = "handle"
    /\ request.endpoint = "/predict"
    /\ bundle_read' = <<model_artifacts>>
    /\ IF model_artifacts = None
         THEN Respond(ErrorResponse(503, Msg("Modelo no disponible")))
         ELSE pc' = "get_json" /\ response' = response
    /\ UNCHANGED <<request, data, features_array, votes, prediction,
                   probabilities, calls>>
    /\ UNCHANGED proc_vars

\* POST /predict, `data = request.get_json()` and `if data is None`
predict_get_json ==
    /\ pc = "get_json"
    /\ calls' = Append(calls, "get_json")
    /\ \E r \in get_json(request.body) :
         IF r.exc # ""
           THEN Respond(PredictFault(r.exc)) /\ data' = data
         ELSE IF r.value = <<>>
           THEN /\ Respond(ErrorResponse(400, Msg("Request debe ser JSON válido")))
                /\ data' = data
         ELSE /\ data' = r.value
              /\ pc' = "validate"
              /\ response' = response
    /\ UNCHANGED <<request, features_array, votes, prediction, probabilities,
                   bundle_read>>
    /\ UNCHANGED proc_vars

\* POST /predict, `validate_input(data)` and `if not is_valid`
predict_validate ==
    /\ pc = "validate"
    /\ calls' = Append(calls, "validate_input")
    /\ bundle_read' = <<model_artifacts>>
    /\ LET r == validate_input(data[1], model_artifacts) IN
         IF r.exc # ""
           THEN Respond(PredictFault(r.exc)) /\ features_array' = features_array
         ELSE IF ~r.valid
           THEN Respond(ErrorResponse(400, r.msg))
                  /\ features_array' = features_array
         ELSE /\ features_array' = r.array
              /\ pc' = "transform"
              /\ response' = response
    /\ UNCHANGED <<request, data, votes, prediction, probabilities>>
    /\ UNCHANGED proc_vars

\* The scaler and the classifier of a bundle accept rows of n columns.
Fits(arr, artifacts) == artifacts # None /\ arr.cols = artifacts.n

\* POST /predict, `model_artifacts['scaler'].transform(features_array)`
predict_transform ==
    /\ pc = "transform"
    /\ calls' = Append(calls, "scaler.transform")
    /\ IF Fits(features_array[1], model_artifacts)
         THEN pc' = "predict" /\ response' = response
         ELSE Respond(PredictFault("ValueError"))
    /\ UNCHANGED <<request, data, features_array, votes, prediction,
                   probabilities, bundle_read>>
    /\ UNCHANGED proc_vars

\* POST /predict, `int(model_artifacts['model'].predict(features_scaled)[0])`
predict_predict ==
    /\ pc = "predict"
    /\ calls' = Append(calls, "model.predict")
    /\ IF Fits(features_array[1], model_artifacts)
         THEN /\ \E b \in ProbGrid :
                   /\ votes' = <<model_artifacts, b>>
                   /\ prediction' = <<forest_predict(Proba(b))>>
              /\ pc' = "predict_proba"
              /\ response' = response
         ELSE /\ Respond(PredictFault("ValueError"))
              /\ UNCHANGED <<votes, prediction>>
    /\ UNCHANGED <<request, data, features_array, probabilities, bundle_read>>
    /\ UNCHANGED proc_vars

\* What predict_proba returns for the row predict has just classified: the
\* same vote when the global still holds the same fitted forest, any vote
\* when a load has replaced it in between.
proba_outcomes(v, artifacts) ==
    IF v[1] = artifacts THEN {Proba(v[2])} ELSE {Proba(b) : b \in ProbGrid}

predict_predict_proba_called_twice ==
    /\ pc = "predict_proba"
    /\ calls' = Append(Append(calls, "model.predict_proba"),
                       "model.predict_proba")
    /\ IF Fits(features_array[1], model_artifacts)
         THEN \E p \in proba_outcomes(votes, model_artifacts) :
                \E up \in TieDirections(p) :
                  /\ probabilities' = p
                  /\ Respond(PredictionResponse(prediction[1], p, up))
         ELSE /\ Respond(PredictFault("ValueError"))
              /\ probabilities' = probabilities
    /\ UNCHANGED <<request, data, features_array, votes, prediction,
                   bundle_read>>
    /\ UNCHANGED proc_vars

\* POST /predict, `model_artifacts['model'].predict_proba(features_scaled)[0]`
\* and the assembly of the 200 response.
predict_predict_proba ==
    /\ pc = "predict_proba"
    /\ calls' = Append(calls, "model.predict_proba")
    /\ IF Fits(features_array[1], model_artifacts)
         THEN \E p \in proba_outcomes(votes, model_artifacts) :
                \E up \in TieDirections(p) :
                  /\ probabilities' = p
                  /\ Respond(PredictionResponse(prediction[1], p, up))
         ELSE /\ Respond(PredictFault("ValueError"))
              /\ probabilities' = probabilities
    /\ UNCHANGED <<request, data, features_array, votes, prediction,
                   bundle_read>>
    /\ UNCHANGED proc_vars

Next ==
    \/ save_model
    \/ main
    \/ load_model
    \/ receive
    \/ handler_returns
    \/ health_check
    \/ model_info
    \/ not_found
    \/ internal_error
    \/ predict_check
    \/ predict_get_json
    \/ predict_validate
    \/ predict_transform
    \/ predict_predict
    \/ predict_predict_proba

Spec == Init /\ [][Next]_vars

----------------------------------------------------------------------------
(* Properties.                                                             *)

\* The request has been answered.
Answered == pc = "done"

\* The /predict request has been answered, and the `is None` test and
\* validate_input found a bundle with metadata['feature_names'] in the global.
PredictAnsweredLoaded ==
    /\ Answered
    /\ request.endpoint = "/predict"
    /\ bundle_read # <<>>
    /\ bundle_read[1].kind = "good"

IsValidatorError(r) ==
    /\ r.code = 400
    /\ r.status = "error"
    /\ r.message.text \in ValidatorMessages

\* The body is an object holding a `features` list of n numbers.
WellFormed(body, n) ==
    /\ body.raw = "json"
    /\ body.type = "object"
    /\ body.ftype = "list"
    /\ Len(body.items) = n
    /\ \A i \in 1..Len(body.items) : body.items[i].kind = "number"

\* C1: with the model loaded, a /predict body that parses as JSON (object,
\* array, string, number, boolean) but is not an object holding a `features`
\* list of expected_length numbers is answered 400, status "error", with one
\* of the validator's reason strings, and never 500.
C1_MalformedJsonIs400 ==
    (/\ PredictAnsweredLoaded
     /\ request.body.raw = "json"
     /\ request.body.type \in {"object", "array", "string", "number", "boolean"}
     /\ ~WellFormed(request.body, bundle_read[1].n))
        => IsValidatorError(response)

\* C2: with the model loaded, a /predict request whose body is absent or is
\* not valid JSON is answered 400 with status "error", whether get_json
\* returns None or raises.
C2_NonJsonIs400 ==
    (/\ PredictAnsweredLoaded
     /\ request.body.raw \in {"absent", "invalid"})
        => (response.code = 400 /\ response.status = "error")

\* C3: whenever validate_input reports success, the array it returns is one
\* row of exactly expected_length values, all of them finite.
C3_ValidatedRowHasExpectedLength ==
    pc = "transform"
        => (/\ features_array[1].cols = bundle_read[1].n
            /\ features_array[1].finite)

\* C4: with the model loaded, a `features` list whose length differs from
\* len(metadata['feature_names']) is answered 400, status "error", with a
\* message that contains both the expected and the received count, whatever
\* the elements of the list are.
C4_WrongLengthIs400WithBothCounts ==
    (/\ PredictAnsweredLoaded
     /\ request.body.raw = "json"
     /\ request.body.ftype = "list"
     /\ Len(request.body.items) # bundle_read[1].n)
        => (/\ response.code = 400
            /\ response.status = "error"
            /\ \E i \in DOMAIN response.message.args :
                   response.message.args[i] = bundle_read[1].n
            /\ \E i \in DOMAIN response.message.args :
                   response.message.args[i] = Len(request.body.items))

C4_Witness ==
    /\ PredictAnsweredLoaded
    /\ request.body.ftype = "list"
    /\ Len(request.body.items) = 1
    /\ request.body.items[1].kind = "string"
    /\ bundle_read[1].n = 2
    /\ response.code = 400

\* C5: with the model loaded, a `features` list of the expected length that
\* holds at least one element that is not a number (a non-numeric string,
\* null, an object) is answered 400, status "error", with the message that
\* all features must be numeric.
C5_NonNumericIs400Numeric ==
    (/\ PredictAnsweredLoaded
     /\ request.body.raw = "json"
     /\ request.body.ftype = "list"
     /\ Len(request.body.items) = bundle_read[1].n
     /\ \E i \in 1..Len(request.body.items) :
            request.body.items[i].kind \in {"string", "null", "object"})
        => (/\ response.code = 400
            /\ response.status = "error"
            /\ response.message.text
                   = "Todas las características deben ser valores numéricos")

\* C6: every response of every endpoint and error handler, on every success
\* and failure path, contains a `timestamp` field.
C6_EveryResponseHasTimestamp ==
    Answered => "timestamp" \in response.keys

Guarded == {"/", "/predict", "/model-info"}

\* C7: in every interleaving of load_model with requests, a request to GET /,
\* POST /predict or GET /model-info whose handler runs while model_artifacts
\* is None can always take its step, and that step answers 503 with status
\* "error" at once, whatever the body, without calling get_json,
\* validate_input, the scaler or the classifier.
C7_Unloaded503AtOnce ==
    /\ [](pc = "handle" /\ request.endpoint \in Guarded
            => ENABLED (health_check \/ model_info \/ predict_check))
    /\ [][(/\ pc = "handle"
           /\ request.endpoint \in Guarded
           /\ model_artifacts = None
           /\ pc' # "handle")
             => (/\ pc' = "done"
                 /\ response'.code = 503
                 /\ response'.status = "error"
                 /\ calls' = <<>>
                 /\ data' = <<>>
                 /\ features_array' = <<>>)]_vars

C7_Witness ==
    /\ Answered
    /\ request.endpoint = "/predict"
    /\ request.body.ftype = "list"
    /\ bundle_read = <<None>>
    /\ response.code = 503
    /\ disk.kind = "good"

\* C8: started as the main program, the listener is bound only after
\* load_model has returned True; when load_model returns False the process
\* exits with a non-zero status, the listener is never bound and no request
\* is ever served.
C8_ListenerOnlyAfterSuccessfulLoad ==
    /\ main_pc = "serving"
         => (load_result = <<TRUE>> /\ model_artifacts.kind = "good")
    /\ (main_pc # "imported" /\ load_result = <<FALSE>>)
         => (/\ main_pc = "exited"
             /\ exit_status # <<>>
             /\ exit_status[1] # 0
             /\ pc = "idle")
    /\ (main_pc = "start" \/ main_pc = "exited") => pc = "idle"

C8_Witness ==
    /\ main_pc = "exited"
    /\ load_result = <<FALSE>>
    /\ model_artifacts.kind = "nometa"

IsPrefix(a, b) == Len(a) <= Len(b) /\ \A i \in 1..Len(a) : a[i] = b[i]

Count(seq, names) == Cardinality({i \in 1..Len(seq) : seq[i] \in names})

Classifier == {"model.predict", "model.predict_proba"}

\* The calls of one /predict request never leave the order validate_input,
\* scaler.transform, classifier, the later ones only after validate_input
\* has returned an array; a 400 or 503 response has called neither the scaler
\* nor the classifier.
OrderedAfterValidation ==
    /\ IsPrefix(calls, <<"get_json", "validate_input", "scaler.transform",
                         "model.predict", "model.predict_proba">>)
    /\ Len(calls) > 2 => features_array # <<>>
    /\ (Answered /\ response.code \in {400, 503}) => Len(calls) <= 2

\* C9 as stated: ... and a request that reaches the classifier invokes it
\* exactly once.
C9_ClassifierInvokedOnce ==
    /\ OrderedAfterValidation
    /\ Count(calls, Classifier) <= 1

\* C9, amended: for each /predict request the scaler and the classifier are
\* invoked only after validate_input has succeeded for that request, in the
\* order validate_input, scaler.transform, model.predict,
\* model.predict_proba; a request answered 400 or 503 invokes neither; a
\* request that reaches the classifier invokes predict exactly once and
\* predict_proba at most once, and a 200 response has invoked each of the
\* two exactly once.
C9_ClassifierMethodsOnceEach ==
    /\ OrderedAfterValidation
    /\ Count(calls, {"model.predict"}) <= 1
    /\ Count(calls, {"model.predict_proba"}) <= 1
    /\ (Answered /\ request.endpoint = "/predict" /\ response.code = 200)
         => Count(calls, Classifier) = 2

C9_Witness ==
    /\ Answered
    /\ request.endpoint = "/predict"
    /\ response.code = 200
    /\ Count(calls, Classifier) = 2

\* C10 as stated: in a 200 response of /predict class 1 carries the
\* diagnosis "Benign" and class 0 the diagnosis "Malignant".
C10_DiagnosisEnglish ==
    (Answered /\ response.prediction # <<>>)
        => (/\ response.prediction[1].class = 1
                 => response.prediction[1].diagnosis = "Benign"
            /\ response.prediction[1].class = 0
                 => response.prediction[1].diagnosis = "Malignant")

\* C10, amended: in every 200 response of /predict the diagnosis is
\* determined by the class alone: class 1 carries the benign diagnosis
\* "Benigno" and class 0 the malignant diagnosis "Maligno"; none pairs class 1
\* with "Maligno" or class 0 with "Benigno".
C10_DiagnosisByClass ==
    (Answered /\ response.prediction # <<>>)
        => (/\ response.prediction[1].class \in {0, 1}
            /\ response.prediction[1].class = 1
                 <=> response.prediction[1].diagnosis = "Benigno"
            /\ response.prediction[1].class = 0
                 <=> response.prediction[1].diagnosis = "Maligno")

C10_Witness ==
    /\ Answered
    /\ response.code = 200
    /\ response.prediction # <<>>
    /\ response.prediction[1].class = 0
    /\ response.prediction[1].diagnosis = "Maligno"

\* C11: for every valid numeric vector of the expected length and every
\* output of the classifier (a label in {0, 1} and a probability pair that
\* sums to 1), the 200 response of /predict has class in {0, 1},
\* 0 <= confidence <= 100, and probabilities.malignant +
\* probabilities.benign within 0.02 of 100, each field being rounded to two
\* decimals on its own (values here are hundredths of a percent).
C11_PredictionRanges ==
    (Answered /\ response.prediction # <<>>)
        => LET r == response.prediction[1] IN
             /\ r.class \in {0, 1}
             /\ r.confidence >= 0
             /\ r.confidence <= 10000
             /\ r.probabilities.malignant + r.probabilities.benign >= 9998
             /\ r.probabilities.malignant + r.probabilities.benign <= 10002

\* A response whose two rounded shares do not add up to 100.00.
C11_Witness ==
    /\ Answered
    /\ response.code = 200
    /\ response.prediction # <<>>
    /\ probabilities[1] + probabilities[2] = 100000
    /\ response.prediction[1].probabilities.malignant
           + response.prediction[1].probabilities.benign = 10001

\* C12: GET / answers 200 with status "healthy" and
\* model_info.features_count equal to the length of feature_names in the
\* loaded metadata whenever model_artifacts holds a bundle, after any
\* sequence of earlier requests, and 503 whenever it holds none.
C12_HealthFollowsLoadedModel ==
    (Answered /\ request.endpoint = "/")
        => IF bundle_read[1] = None
             THEN response.code = 503
             ELSE /\ response.code = 200
                  /\ response.status = "healthy"
                  /\ response.model_info # <<>>
                  /\ response.model_info[1].features_count = bundle_read[1].n

\* C13: in every 200 response of /predict, confidence is the percentage of
\* the class reported in `class`: it equals probabilities.benign when class
\* is 1 and probabilities.malignant when class is 0, for every label and
\* probability pair that predict and predict_proba of the classifier return.
C13_ConfidenceIsOfReportedClass ==
    (Answered /\ response.prediction # <<>>)
        => LET r == response.prediction[1] IN
             /\ r.class = 1 => r.confidence = r.probabilities.benign
             /\ r.class = 0 => r.confidence = r.probabilities.malignant

\* A benign answer whose two shares differ.
C13_Witness ==
    /\ Answered
    /\ response.code = 200
    /\ response.prediction # <<>>
    /\ response.prediction[1].class = 1
    /\ response.prediction[1].confidence
           = response.prediction[1].probabilities.benign
    /\ response.prediction[1].probabilities.benign
           > response.prediction[1].probabilities.malignant

\* C14: load_model returns True exactly when it has installed a bundle:
\* a call that returns False (file missing, file unreadable, or a loaded
\* bundle without metadata or feature_names) leaves model_artifacts exactly
\* as it was, a call that returns True leaves the bundle of the file in it.
C14_FailedLoadLeavesGlobalAlone ==
    [][/\ (load_result' = <<FALSE>>) => (model_artifacts' = model_artifacts)
       /\ (load_result' = <<TRUE>>) => (model_artifacts' # None)]_vars

====
